---- MODULE Spec2Model ----
(***************************************************************************)
(* Model of the cad-bot drawing pipeline: the object transform engine of   *)
(* actions/file_handler.py (DataProcessor), the chat actions that drive    *)
(* it, and the geometry extraction of save_as_image.py and                 *)
(* DataProcessor.convert_to_image, and the chat actions of                 *)
(* actions/actions.py that call the design server over HTTP.               *)
(*                                                                         *)
(* Numbers.  Python floats are modelled as exact rationals <<n, d>> in     *)
(* lowest terms with d > 0.  math.sqrt is exact on the squares of          *)
(* rationals, and the drawings of Init keep every pair of reference        *)
(* points at a rational distance, so no rounding is modelled.              *)
(* Angles are rational degrees; a point sampled on a circle is kept in     *)
(* polar form, with cos/sin identified by their period of 360 degrees.     *)
(***************************************************************************)
EXTENDS Integers, Sequences, FiniteSets, TLC

VARIABLES
    file,       \* entities stored in ./files/restroom.dxf
    msp,        \* model space of the DataProcessor a script holds
    saved,      \* what doc.saveas last wrote, <<"none">> before any save
    hist,       \* the calls made so far, oldest first
    ex,         \* state of one extraction run (plot_dxf / convert_to_image)
    http        \* the latest run of an action of actions/actions.py

vars == <<file, msp, saved, hist, ex, http>>

-----------------------------------------------------------------------------
(* Bounds of the model *)

MaxRefPoints == 3
MaxCalls == 2

-----------------------------------------------------------------------------
(* Exact rational arithmetic *)

Abs(i) == IF i < 0 THEN -i ELSE i

RECURSIVE GCD(_, _)
GCD(a, b) == IF b = 0 THEN a ELSE GCD(b, a % b)

Rat(n, d) ==
    LET s == IF d < 0 THEN -1 ELSE 1
        g == GCD(Abs(n), Abs(d))
    IN  <<(s * n) \div g, (s * d) \div g>>

Q(i) == <<i, 1>>
Zero == Q(0)
One == Q(1)

RAdd(a, b) == Rat(a[1] * b[2] + b[1] * a[2], a[2] * b[2])
RNeg(a) == <<-a[1], a[2]>>
RSub(a, b) == RAdd(a, RNeg(b))
RMul(a, b) == Rat(a[1] * b[1], a[2] * b[2])
RDiv(a, b) == Rat(a[1] * b[2], a[2] * b[1])
RLess(a, b) == a[1] * b[2] < b[1] * a[2]
RMin(a, b) == IF RLess(b, a) THEN b ELSE a
RMax(a, b) == IF RLess(a, b) THEN b ELSE a
RAbs(a) == <<Abs(a[1]), a[2]>>

IsSquare(i) == \E r \in 0..i : r * r = i
ISqrt(i) == CHOOSE r \in 0..i : r * r = i
HasRationalRoot(a) == a[1] >= 0 /\ IsSquare(a[1]) /\ IsSquare(a[2])
\* math.sqrt on a rational square
RSqrt(a) == <<ISqrt(a[1]), ISqrt(a[2])>>

P3(x, y, z) == <<Q(x), Q(y), Q(z)>>

-----------------------------------------------------------------------------
(* Entities of the drawing model *)

TargetLayer == "A10_Wood- Door Window Ventilator"
PointLayer == "A02_Wall"
OtherLayer == "A03_Furniture"

\* One record shape for every kind; unused attributes are empty.
Entity(kind, layer, pts) ==
    [kind |-> kind, layer |-> layer, pts |-> pts, radius |-> Zero,
     angles |-> <<>>, closed |-> FALSE, name |-> "", text |-> "",
     measurement |-> Zero, sub |-> <<>>, fault |-> "none"]

Point(layer, p) == Entity("POINT", layer, <<p>>)
Line(layer, p, q) == Entity("LINE", layer, <<p, q>>)
Circle(layer, c, r) == [Entity("CIRCLE", layer, <<c>>) EXCEPT !.radius = r]
Arc(layer, c, r, a0, a1) ==
    [Entity("ARC", layer, <<c>>) EXCEPT !.radius = r, !.angles = <<a0, a1>>]
LWPolyline(layer, vs, closed) ==
    [Entity("LWPOLYLINE", layer, vs) EXCEPT !.closed = closed]
Polyline(layer, vs, closed) ==
    [Entity("POLYLINE", layer, vs) EXCEPT !.closed = closed]
Insert(layer, name, p) == [Entity("INSERT", layer, <<p>>) EXCEPT !.name = name]
MText(layer, p, text) == [Entity("MTEXT", layer, <<p>>) EXCEPT !.text = text]
\* a DIMENSION: pts holds text_midpoint (empty when the attribute is absent),
\* sub the entities virtual_entities() yields, fault what goes wrong with it:
\*   "explode_AttributeError", "explode_Error": virtual_entities() raises
\*       AttributeError / another exception after yielding its first entity
\*   "measure_AttributeError", "measure_Error": get_measurement() raises
Dimension(layer, mid, measurement, sub, fault) ==
    [Entity("DIMENSION", layer, mid) EXCEPT
        !.measurement = measurement, !.sub = sub, !.fault = fault]

-----------------------------------------------------------------------------
(* DataProcessor: the object transform engine *)

\* Entities are handled by reference: an entity of model space m is named
\* by its index in m.
get_entities_by_layer(m, layer_name) ==
    LET onLayer(i) == m[i].layer = layer_name
    IN  SelectSeq([i \in 1..Len(m) |-> i], onLayer)

get_points_from_layer(m, layer_name) ==
    LET es == get_entities_by_layer(m, layer_name)
        isPoint(i) == m[i].kind = "POINT"
        ps == SelectSeq(es, isPoint)
    IN  [k \in 1..Len(ps) |-> m[ps[k]].pts[1]]

\* the degenerate result is the tuple of ints (0, 0, 0)
ZeroVector == <<Zero, Zero, Zero>>

SquaredLength(p1, p2) ==
    LET dx == RSub(p2[1], p1[1])
        dy == RSub(p2[2], p1[2])
        dz == RSub(p2[3], p1[3])
    IN  RAdd(RAdd(RMul(dx, dx), RMul(dy, dy)), RMul(dz, dz))

\* variant: the direction is not normalised
get_vector_not_normalised(p1, p2) ==
    <<RSub(p2[1], p1[1]), RSub(p2[2], p1[2]), RSub(p2[3], p1[3])>>

\* variant: only the x difference decides the degenerate case
get_vector_guard_on_dx(p1, p2) ==
    LET dx == RSub(p2[1], p1[1])
        dy == RSub(p2[2], p1[2])
        dz == RSub(p2[3], p1[3])
        length == RSqrt(RAdd(RAdd(RMul(dx, dx), RMul(dy, dy)), RMul(dz, dz)))
    IN  IF dx # Zero
        THEN <<RDiv(dx, length), RDiv(dy, length), RDiv(dz, length)>>
        ELSE ZeroVector

get_vector_from_two_points(p1, p2) ==
    LET dx == RSub(p2[1], p1[1])
        dy == RSub(p2[2], p1[2])
        dz == RSub(p2[3], p1[3])
        length == RSqrt(RAdd(RAdd(RMul(dx, dx), RMul(dy, dy)), RMul(dz, dz)))
    IN  IF length # Zero
        THEN <<RDiv(dx, length), RDiv(dy, length), RDiv(dz, length)>>
        ELSE ZeroVector

\* entity.translate(dx, dy, dz): every point attribute is shifted
translate(e, v) ==
    [e EXCEPT !.pts = [i \in 1..Len(e.pts) |->
        <<RAdd(e.pts[i][1], v[1]), RAdd(e.pts[i][2], v[2]),
          RAdd(e.pts[i][3], v[3])>>]]

\* variant: the unit vector is applied without scaling by the distance
move_vector_unscaled(points, distance) ==
    get_vector_from_two_points(points[1], points[2])

\* variant: the sign of the distance is dropped
move_vector_abs(points, distance) ==
    LET u == get_vector_from_two_points(points[1], points[2])
        d == RAbs(distance)
    IN  <<RMul(u[1], d), RMul(u[2], d), RMul(u[3], d)>>

move_vector(points, distance) ==
    LET u == get_vector_from_two_points(points[1], points[2])
    IN  <<RMul(u[1], distance), RMul(u[2], distance), RMul(u[3], distance)>>

\* variant: the precondition only asks for at least two points
move_objects_at_least_two(m, object, distance) ==
    LET objects == get_entities_by_layer(m, TargetLayer)
        points == get_points_from_layer(m, PointLayer)
        moved == {objects[k] : k \in 1..Len(objects)}
    IN  IF Len(points) < 2
        THEN [raised |-> "ValueError", msp |-> m]
        ELSE [raised |-> "none",
              msp |-> [i \in 1..Len(m) |->
                         IF i \in moved
                         THEN translate(m[i], move_vector(points, distance))
                         ELSE m[i]]]

\* move_objects(object, distance) on model space m:
\* [raised, msp] - the error raised ("none" if it returned) and the model
\* space it leaves behind.
move_objects(m, object, distance) ==
    LET objects == get_entities_by_layer(m, TargetLayer)
        points == get_points_from_layer(m, PointLayer)
        moved == {objects[k] : k \in 1..Len(objects)}
    IN  IF Len(points) # 2
        THEN [raised |-> "ValueError", msp |-> m]
        ELSE [raised |-> "none",
              msp |-> [i \in 1..Len(m) |->
                         IF i \in moved
                         THEN translate(m[i], move_vector(points, distance))
                         ELSE m[i]]]

-----------------------------------------------------------------------------
(* Geometry extraction: save_as_image.extract_lines *)

Samples == 100

\* A 2D point is <<x, y, r, a>>: the point (x + r cos a, y + r sin a), a in
\* degrees with 0 <= a < 360.  A point with exact coordinates has r = 0 and
\* a = 0; cos and sin are evaluated where they are rational (multiples of
\* 90 degrees) and kept symbolic elsewhere.
Pt(x, y) == <<x, y, Zero, Zero>>

RFloor(a) == a[1] \div a[2]
Mod360(a) == RSub(a, Q(360 * RFloor(RDiv(a, Q(360)))))

OnCircle(c, radius, theta) ==
    LET a == Mod360(theta)
    IN  IF radius = Zero \/ a = Zero THEN Pt(RAdd(c[1], radius), c[2])
        ELSE IF a = Q(90) THEN Pt(c[1], RAdd(c[2], radius))
        ELSE IF a = Q(180) THEN Pt(RSub(c[1], radius), c[2])
        ELSE IF a = Q(270) THEN Pt(c[1], RSub(c[2], radius))
        ELSE <<c[1], c[2], radius, a>>

\* variant: the stop value is left out (endpoint=False)
linspace_open(start, stop, num, i) ==
    RAdd(start, RDiv(RMul(Q(i), RSub(stop, start)), Q(num)))

\* np.linspace(start, stop, num)[i], i from 0
linspace(start, stop, num, i) ==
    RAdd(start, RDiv(RMul(Q(i), RSub(stop, start)), Q(num - 1)))

\* [(points[i], points[i + 1]) for i in range(len(points) - 1)]
ConsecutivePairs(points) ==
    [i \in 1..(IF Len(points) = 0 THEN 0 ELSE Len(points) - 1) |->
        <<points[i], points[i + 1]>>]

\* getattr(entity.dxf, "start_angle", 0), getattr(entity.dxf, "end_angle", 360)
start_angle(entity) == IF entity.angles = <<>> THEN Q(0) ELSE entity.angles[1]
end_angle(entity) == IF entity.angles = <<>> THEN Q(360) ELSE entity.angles[2]

Black == <<Zero, Zero, Zero>>

\* layer_colors.get(layer, (0, 0, 0))
ColorOf(layer_colors, layer) ==
    IF layer \in DOMAIN layer_colors THEN layer_colors[layer] ELSE Black

CirclePoints(entity, insert_point) ==
    LET center == <<RAdd(entity.pts[1][1], insert_point[1]),
                    RAdd(entity.pts[1][2], insert_point[2])>>
    IN  [i \in 1..Samples |->
            OnCircle(center, entity.radius,
                     linspace(start_angle(entity), end_angle(entity),
                              Samples, i - 1))]

\* variant: the closed flag is not read
PolylinePoints_open(entity, insert_point) ==
    [i \in 1..Len(entity.pts) |->
        Pt(RAdd(entity.pts[i][1], insert_point[1]),
           RAdd(entity.pts[i][2], insert_point[2]))]

PolylinePoints(entity, insert_point) ==
    LET points == [i \in 1..Len(entity.pts) |->
                      Pt(RAdd(entity.pts[i][1], insert_point[1]),
                         RAdd(entity.pts[i][2], insert_point[2]))]
    IN  IF entity.closed /\ points # <<>>
        THEN Append(points, points[1])
        ELSE points

\* extract_lines(entity, insert_point, layer_colors): [lines, color]
extract_lines(entity, insert_point, layer_colors) ==
    LET color == ColorOf(layer_colors, entity.layer)
    IN  IF entity.kind = "LINE"
        THEN [lines |-> << <<Pt(RAdd(entity.pts[1][1], insert_point[1]),
                                RAdd(entity.pts[1][2], insert_point[2])),
                             Pt(RAdd(entity.pts[2][1], insert_point[1]),
                                RAdd(entity.pts[2][2], insert_point[2]))>> >>,
              color |-> color]
        ELSE IF entity.kind \in {"CIRCLE", "ARC"}
        THEN [lines |-> ConsecutivePairs(CirclePoints(entity, insert_point)),
              color |-> color]
        ELSE IF entity.kind \in {"POLYLINE", "LWPOLYLINE"}
        THEN [lines |-> ConsecutivePairs(PolylinePoints(entity, insert_point)),
              color |-> color]
        ELSE [lines |-> <<>>, color |-> color]

Origin == <<Zero, Zero>>

-----------------------------------------------------------------------------
(* The block table of the drawing and the extraction pipelines *)

MaxEntities == 2
MaxVertices == 3

RECURSIVE Flatten(_)
Flatten(ss) == IF ss = <<>> THEN <<>> ELSE Head(ss) \o Flatten(Tail(ss))

\* variant: one colour, whatever the number of segments
Repeat_once(x, n) == <<x>>

Repeat(x, n) == [i \in 1..n |-> x]

\* round(float(x), 2), ties to even
Round2(x) ==
    LET h == RMul(x, Q(100))
        f == RFloor(h)
        frac == RSub(h, Q(f))
        n == IF RLess(frac, Rat(1, 2)) THEN f
             ELSE IF RLess(Rat(1, 2), frac) THEN f + 1
             ELSE IF f % 2 = 0 THEN f ELSE f + 1
    IN  Rat(n, 100)

\* doc.blocks: DOOR and WINDOW reference each other
BlockNames == {"DOOR", "WINDOW"}
BlockTable ==
    [name \in BlockNames |->
        IF name = "DOOR"
        THEN << Line(TargetLayer, P3(0, 0, 0), P3(1, 0, 0)),
                LWPolyline(TargetLayer,
                           <<P3(0, 0, 0), P3(1, 0, 0), P3(1, 2, 0)>>, TRUE),
                Insert(TargetLayer, "WINDOW", P3(5, 5, 0)) >>
        ELSE << Insert(OtherLayer, "DOOR", P3(1, 1, 0)),
                Line(OtherLayer, P3(0, 0, 0), P3(0, 2, 0)),
                MText(OtherLayer, P3(0, 1, 0), "W1") >>]

\* doc.blocks.get(name): <<>> stands for None
blocks_get(name) ==
    IF name \in BlockNames THEN <<BlockTable[name]>> ELSE <<>>

ExplodeFaults == {"explode_AttributeError", "explode_Error"}

\* variant: a failing virtual_entities() yields nothing before it raises
Yielded_nothing(entity) ==
    IF entity.fault \in ExplodeFaults THEN <<>> ELSE entity.sub

\* the entities virtual_entities() yields before it ends or raises
Yielded(entity) ==
    IF entity.fault \in ExplodeFaults
    THEN SubSeq(entity.sub, 1, IF Len(entity.sub) = 0 THEN 0 ELSE 1)
    ELSE entity.sub

\* one entry of the log of extract_lines / add_entity calls
Logged(entity, insert_point, lines) ==
    [entity |-> entity, insert_point |-> insert_point, lines |-> lines]

\* process_dimension(entity, layer_colors):
\* [lines, annotations, raised, calls]; raised is the exception that leaves
\* the function ("none" when it returns)
process_dimension(entity, layer_colors) ==
    LET ys == Yielded(entity)
        per == [k \in 1..Len(ys) |->
                   extract_lines(ys[k], Origin, layer_colors).lines]
        lines == Flatten(per)
        calls == [k \in 1..Len(ys) |-> Logged(ys[k], Origin, per[k])]
        text_position == Pt(entity.pts[1][1], entity.pts[1][2])
        annotation == [position |-> text_position,
                       text |-> Round2(entity.measurement)]
    IN  IF entity.fault = "explode_Error"
        THEN [lines |-> lines, annotations |-> <<>>, raised |-> "ValueError",
              calls |-> calls]
        ELSE IF entity.fault = "explode_AttributeError"
        THEN [lines |-> lines, annotations |-> <<>>, raised |-> "none",
              calls |-> calls]
        ELSE IF entity.pts = <<>>
        THEN [lines |-> lines, annotations |-> <<>>, raised |-> "none",
              calls |-> calls]
        ELSE IF entity.fault = "measure_Error"
        THEN [lines |-> lines, annotations |-> <<>>, raised |-> "ValueError",
              calls |-> calls]
        ELSE IF entity.fault = "measure_AttributeError"
        THEN [lines |-> lines, annotations |-> <<>>, raised |-> "none",
              calls |-> calls]
        ELSE [lines |-> lines, annotations |-> <<annotation>>,
              raised |-> "none", calls |-> calls]

DimensionBlue == <<Zero, Zero, Rat(4, 5)>>

\* the state of an extraction run before its first entity
ExtractionStart(impl, layer_colors) ==
    [impl |-> impl, pc |-> "loop", i |-> 1, layer_colors |-> layer_colors,
     all_lines |-> <<>>, all_colors |-> <<>>, dimension_lines |-> <<>>,
     dimension_colors |-> <<>>, all_annotations |-> <<>>,
     dim_positions |-> {}, calls |-> <<>>, raised |-> "none",
     wrote |-> FALSE, limits |-> <<>>]

\* the body of plot_dxf's loop for one entity of model space
plot_dxf_entity(st, entity) ==
    LET color == ColorOf(st.layer_colors, entity.layer)
        next == [st EXCEPT !.i = st.i + 1]
    IN  IF entity.kind = "INSERT"
        THEN LET insert_point == <<entity.pts[1][1], entity.pts[1][2]>>
                 block == blocks_get(entity.name)
             IN  IF block = <<>>
                 THEN [st EXCEPT !.pc = "raised", !.raised = "TypeError",
                                 !.calls = <<>>]
                 ELSE LET per == [k \in 1..Len(block[1]) |->
                                     extract_lines(block[1][k], insert_point,
                                                   st.layer_colors).lines]
                      IN  [next EXCEPT
                              !.all_lines = st.all_lines \o Flatten(per),
                              !.all_colors = st.all_colors \o
                                  Repeat(color, Len(Flatten(per))),
                              !.calls = [k \in 1..Len(block[1]) |->
                                  Logged(block[1][k], insert_point, per[k])]]
        ELSE IF entity.kind \in {"DIMENSION", "ROTATED_DIMENSION"}
        THEN LET d == process_dimension(entity, st.layer_colors)
             IN  IF d.raised # "none"
                 THEN [st EXCEPT !.pc = "raised", !.raised = d.raised,
                                 !.calls = d.calls]
                 ELSE [next EXCEPT
                          !.dimension_lines = st.dimension_lines \o d.lines,
                          !.dimension_colors = st.dimension_colors \o
                              Repeat(DimensionBlue, Len(d.lines)),
                          !.all_annotations =
                              st.all_annotations \o d.annotations,
                          !.calls = d.calls]
        ELSE LET r == extract_lines(entity, Origin, st.layer_colors)
             IN  [next EXCEPT
                     !.all_lines = st.all_lines \o r.lines,
                     !.all_colors = st.all_colors \o
                         Repeat(r.color, Len(r.lines)),
                     !.calls = <<Logged(entity, Origin, r.lines)>>]

\* the endpoints of the segments, in order
EndPoints(lines) ==
    [k \in 1..(2 * Len(lines)) |->
        lines[(k + 1) \div 2][IF k % 2 = 1 THEN 1 ELSE 2]]
Exact(points) == \A k \in 1..Len(points) : points[k][3] = Zero

Least(S) == CHOOSE x \in S : \A y \in S : ~RLess(y, x)
Greatest(S) == CHOOSE x \in S : \A y \in S : ~RLess(x, y)

\* np.min / np.max over axis 0, for points with exact coordinates:
\* <<min_x, max_x, min_y, max_y>>
BoundingBox(points) ==
    LET xs == {points[k][1] : k \in 1..Len(points)}
        ys == {points[k][2] : k \in 1..Len(points)}
    IN  <<Least(xs), Greatest(xs), Least(ys), Greatest(ys)>>

MarginFactor == Rat(1, 20)

\* View limits are <<x0, x1, y0, y1>>, or <<"sampled">> when an endpoint lies
\* on a sampled circle at an angle where cos and sin are kept symbolic.
\* plot_dxf: one margin, max(width, height) * 0.05, on both axes
plot_limits(lines) ==
    LET points == EndPoints(lines)
        b == BoundingBox(points)
        margin == RMul(RMax(RSub(b[2], b[1]), RSub(b[4], b[3])), MarginFactor)
    IN  IF ~Exact(points) THEN <<"sampled">>
        ELSE <<RSub(b[1], margin), RAdd(b[2], margin),
               RSub(b[3], margin), RAdd(b[4], margin)>>

\* convert_to_image: margin_x and margin_y, each 0.05 of its own extent
image_limits(lines) ==
    LET points == EndPoints(lines)
        b == BoundingBox(points)
        margin_x == RMul(RSub(b[2], b[1]), MarginFactor)
        margin_y == RMul(RSub(b[4], b[3]), MarginFactor)
    IN  IF ~Exact(points) THEN <<"sampled">>
        ELSE <<RSub(b[1], margin_x), RAdd(b[2], margin_x),
               RSub(b[3], margin_y), RAdd(b[4], margin_y)>>

\* plot_dxf after its loop: the emptiness test, framing and savefig
plot_dxf_finish(st) ==
    IF st.all_lines = <<>> /\ st.dimension_lines = <<>>
       /\ st.all_annotations = <<>>
    THEN [st EXCEPT !.pc = "done", !.calls = <<>>]
    ELSE IF st.all_lines \o st.dimension_lines = <<>>
    THEN [st EXCEPT !.pc = "raised", !.raised = "ValueError", !.calls = <<>>]
    ELSE [st EXCEPT !.pc = "done", !.wrote = TRUE, !.calls = <<>>,
             !.limits = plot_limits(st.all_lines \o st.dimension_lines)]

\* convert_to_image.add_entity(e, insert_point) on the lists st
RECURSIVE add_entity(_, _, _), AddAll(_, _, _)
\* for entity in e.virtual_entities(): add_entity(entity, insert_point)
AddAll(st, es, insert_point) ==
    IF es = <<>> THEN st
    ELSE AddAll(add_entity(st, Head(es), insert_point), Tail(es), insert_point)

add_entity(st, e, insert_point) ==
    IF e.kind = "LINE"
    THEN LET l == << <<Pt(RAdd(e.pts[1][1], insert_point[1]),
                          RAdd(e.pts[1][2], insert_point[2])),
                       Pt(RAdd(e.pts[2][1], insert_point[1]),
                          RAdd(e.pts[2][2], insert_point[2]))>> >>
         IN  [st EXCEPT !.all_lines = st.all_lines \o l,
                        !.calls = Append(st.calls, Logged(e, insert_point, l))]
    ELSE IF e.kind \in {"CIRCLE", "ARC"}
    THEN LET l == ConsecutivePairs(CirclePoints(e, insert_point))
         IN  [st EXCEPT !.all_lines = st.all_lines \o l,
                        !.calls = Append(st.calls, Logged(e, insert_point, l))]
    ELSE IF e.kind \in {"POLYLINE", "LWPOLYLINE"}
    THEN LET l == ConsecutivePairs(PolylinePoints(e, insert_point))
         IN  [st EXCEPT !.all_lines = st.all_lines \o l,
                        !.calls = Append(st.calls, Logged(e, insert_point, l))]
    ELSE IF e.kind = "DIMENSION"
    THEN IF e.fault \in {"measure_AttributeError", "measure_Error"}
            \/ e.pts = <<>>
         THEN st
         ELSE LET dim_value == Round2(e.measurement)
                  pos == Pt(RAdd(e.pts[1][1], insert_point[1]),
                            RAdd(e.pts[1][2], insert_point[2]))
                  st1 == IF dim_value # Zero /\ pos \notin st.dim_positions
                         THEN [st EXCEPT !.dim_positions = @ \cup {pos}]
                         ELSE st
                  ys == Yielded(e)
              IN  AddAll(st1, ys, insert_point)
    ELSE IF e.kind = "MTEXT"
    THEN [st EXCEPT !.all_annotations = Append(st.all_annotations,
              [position |-> Pt(RAdd(e.pts[1][1], insert_point[1]),
                               RAdd(e.pts[1][2], insert_point[2])),
               text |-> e.text])]
    ELSE st

\* convert_to_image after its loop: framing, texts and savefig
convert_to_image_finish(st) ==
    [st EXCEPT !.pc = "done", !.wrote = TRUE, !.calls = <<>>,
        !.limits = IF st.all_lines # <<>>
                   THEN image_limits(st.all_lines) ELSE <<>>]

-----------------------------------------------------------------------------
(* Drawings and inputs the model runs on *)

RefPoints == {P3(0, 0, 0), P3(10, 0, 0), P3(0, 3, 4), P3(12, 1, 2)}

\* sequences of reference points; two reference points lie at a rational
\* distance, so that math.sqrt is exact
RefSeqs ==
    {r \in UNION {[1..n -> RefPoints] : n \in 0..MaxRefPoints} :
        Len(r) = 2 => HasRationalRoot(SquaredLength(r[1], r[2]))}

Body ==
    << Line(TargetLayer, P3(0, 0, 0), P3(1, 0, 0)),
       Line(OtherLayer, P3(0, 5, 0), P3(3, 5, 0)),
       LWPolyline(TargetLayer, <<P3(0, 0, 0), P3(2, 0, 0), P3(2, 2, 0)>>, TRUE),
       Point(TargetLayer, P3(1, 1, 0)),
       Line(PointLayer, P3(0, 0, 0), P3(10, 0, 0)),
       Point(OtherLayer, P3(7, 7, 0)),
       Circle(TargetLayer, P3(4, 4, 0), Q(1)) >>

\* the first reference point precedes the other entities, the rest follow
Drawing(refs) ==
    [i \in 1..(Len(Body) + Len(refs)) |->
        IF Len(refs) > 0 /\ i = 1 THEN Point(PointLayer, refs[1])
        ELSE IF Len(refs) > 0 /\ i <= Len(Body) + 1 THEN Body[i - 1]
        ELSE IF Len(refs) = 0 THEN Body[i]
        ELSE Point(PointLayer, refs[i - Len(Body)])]

Drawings == {Drawing(r) : r \in RefSeqs}

Objects == {TargetLayer, OtherLayer}
Distances == {Rat(-1, 2), Zero, Rat(1, 2)}

NotSaved == [written |-> FALSE, msp |-> <<>>]
Idle == [pc |-> "idle"]

\* the record of one call: its arguments, the model space its processor
\* held before and after, the error it raised, the message it sent to the
\* user, and the locals of move_objects (points, the unit vector)
Call(op, object, distance, pre, post, raised, said) ==
    [op |-> op, object |-> object, distance |-> distance, pre |-> pre,
     post |-> post, raised |-> raised, said |-> said,
     points |-> IF op \in {"move_objects", "action_move_object"}
                THEN get_points_from_layer(pre, PointLayer) ELSE <<>>,
     unit |-> IF op \in {"move_objects", "action_move_object"}
                 /\ Len(get_points_from_layer(pre, PointLayer)) = 2
              THEN get_vector_from_two_points(
                       get_points_from_layer(pre, PointLayer)[1],
                       get_points_from_layer(pre, PointLayer)[2])
              ELSE <<>>]

-----------------------------------------------------------------------------
(* The transform engine driven by a script holding one DataProcessor *)

Init ==
    /\ file \in Drawings
    /\ msp = file
    /\ saved = NotSaved
    /\ hist = <<>>
    /\ ex = Idle
    /\ http = Idle

\* DataProcessor(): ezdxf.readfile
Load ==
    /\ Len(hist) < MaxCalls
    /\ msp' = file
    /\ hist' = Append(hist, Call("load", "", Zero, msp, file, "none", ""))
    /\ UNCHANGED <<file, saved, ex, http>>

MoveObjects(object, distance) ==
    LET r == move_objects(msp, object, distance)
    IN  /\ Len(hist) < MaxCalls
        /\ msp' = r.msp
        /\ hist' = Append(hist, Call("move_objects", object, distance, msp,
                                     r.msp, r.raised, ""))
        /\ UNCHANGED <<file, saved, ex, http>>

\* save(output_path): doc.saveas
Save ==
    /\ Len(hist) < MaxCalls
    /\ saved' = [written |-> TRUE, msp |-> msp]
    /\ hist' = Append(hist, Call("save", "", Zero, msp, msp, "none", ""))
    /\ UNCHANGED <<file, msp, ex, http>>

Next ==
    \/ Load
    \/ \E object \in Objects, distance \in Distances :
          MoveObjects(object, distance)
    \/ Save

Spec == Init /\ [][Next]_vars

-----------------------------------------------------------------------------
(* The chat actions: action_move_object.py, display.py, intro.py *)

MissingMsg == "Missing required parameters. Please provide all details."
MovedMsg == "Here is the modified position of the object"
ImageMsg == "https://s3.amazonaws.com/your-bucket/output.png"

\* None for a slot that is not set: NoObject among the layer names, None
\* among the distances
NoObject == "<None>"
None == <<>>
ObjectSlots == Objects \cup {NoObject}
DistanceSlots == Distances \cup {None}
\* variant: only None counts as a missing slot
AllSlots_none_only(object, distance) ==
    object # NoObject /\ distance # None

\* all([object, distance]): None and 0 are both false
AllSlots(object, distance) ==
    object # NoObject /\ distance # None /\ distance # Zero

\* convert_to_image() over a whole model space
convert_to_image(m) ==
    convert_to_image_finish(
        [AddAll(ExtractionStart("convert_to_image", <<>>), m, Origin)
            EXCEPT !.i = Len(m) + 1])

ActionDrawings ==
    {Drawing(r) : r \in {q \in RefSeqs :
        \A k \in 1..Len(q) : q[k] \in {P3(0, 0, 0), P3(10, 0, 0)}}}

InitActions ==
    /\ file \in ActionDrawings
    /\ msp = <<>>
    /\ saved = NotSaved
    /\ hist = <<>>
    /\ ex = Idle
    /\ http = Idle

\* ActionMoveObjects.run: the processor it constructs reads the file; the
\* exception of move_objects leaves run before save and utter_message
ActionMoveObjectsRun(object, distance) ==
    /\ Len(hist) < MaxCalls
    /\ IF ~AllSlots(object, distance)
       THEN /\ hist' = Append(hist, Call("action_move_object", object, distance,
                                         <<>>, <<>>, "none", MissingMsg))
            /\ UNCHANGED saved
       ELSE LET r == move_objects(file, object, distance)
            IN  /\ hist' = Append(hist,
                       Call("action_move_object", object, distance, file, r.msp,
                            r.raised,
                            IF r.raised = "none" THEN MovedMsg ELSE ""))
                /\ saved' = IF r.raised = "none"
                            THEN [written |-> TRUE, msp |-> r.msp]
                            ELSE saved
    /\ UNCHANGED <<file, msp, ex, http>>

\* ActionShowImage.run of display.py
ActionShowImageRun ==
    /\ Len(hist) < MaxCalls
    /\ ex' = convert_to_image(file)
    /\ hist' = Append(hist, Call("action_show_image", "", Zero, file, file,
                                 "none", ImageMsg))
    /\ UNCHANGED <<file, msp, saved, http>>

\* ActionInitData.run: DataProcessor has no to_dict
ActionInitDataRun ==
    /\ Len(hist) < MaxCalls
    /\ hist' = Append(hist, Call("action_initialize_data", "", Zero, file, file,
                                 "AttributeError", ""))
    /\ UNCHANGED <<file, msp, saved, ex, http>>

NextActions ==
    \/ \E object \in ObjectSlots, distance \in DistanceSlots :
          ActionMoveObjectsRun(object, distance)
    \/ ActionShowImageRun
    \/ ActionInitDataRun

SpecActions == InitActions /\ [][NextActions]_vars

-----------------------------------------------------------------------------
(* One extraction run over a model space, entity by entity *)

Red == <<One, Zero, Zero>>
Green == <<Zero, One, Zero>>

\* generate_layer_colors(doc): a colour for each layer of doc.layers; the
\* layer table need not list every layer an entity names
ColorMaps ==
    { [l \in {TargetLayer, OtherLayer} |->
          IF l = TargetLayer THEN Red ELSE Green],
      [l \in {TargetLayer} |-> Green] }

Vertex(k) == P3(k, k * k, 0)
Vertices(n) == [k \in 1..n |-> Vertex(k)]

DimensionSub ==
    << Line(OtherLayer, P3(0, 1, 0), P3(6, 1, 0)),
       Line(OtherLayer, P3(0, 0, 0), P3(0, 1, 0)) >>

EntityPool ==
    { Line(TargetLayer, P3(0, 0, 0), P3(10, 0, 0)),
      Circle(TargetLayer, P3(4, 4, 0), Q(1)),
      Arc(OtherLayer, P3(0, 0, 0), Q(2), Q(0), Q(90)),
      Polyline(OtherLayer, Vertices(2), TRUE),
      Insert(OtherLayer, "DOOR", P3(10, 10, 0)),
      Insert(OtherLayer, "GHOST", P3(1, 1, 0)),
      MText(OtherLayer, P3(2, 2, 0), "Room"),
      Point(OtherLayer, P3(7, 7, 0)),
      Entity("HATCH", TargetLayer, <<>>),
      Dimension(OtherLayer, <<>>, Q(6), DimensionSub, "none"),
      \* a dimension without a geometry block: nothing to explode
      Dimension(OtherLayer, <<P3(3, 1, 0)>>, Q(6), <<>>, "none") }
    \cup { LWPolyline(TargetLayer, Vertices(n), c) :
              n \in 2..MaxVertices, c \in BOOLEAN }
    \cup { Dimension(OtherLayer, <<P3(3, 1, 0)>>, Rat(12345, 1000),
                     DimensionSub, f) :
              f \in {"none", "measure_AttributeError", "measure_Error"}
                      \cup ExplodeFaults }

ModelSpaces == UNION {[1..n -> EntityPool] : n \in 0..MaxEntities}

InitExtract ==
    /\ file \in ModelSpaces
    /\ msp = file
    /\ saved = NotSaved
    /\ hist = <<>>
    /\ ex \in {ExtractionStart("plot_dxf", lc) : lc \in ColorMaps}
              \cup {ExtractionStart("convert_to_image", <<>>)}
    /\ http = Idle

\* one round of "for entity in msp" in plot_dxf
PlotDxfEntity ==
    /\ ex.impl = "plot_dxf" /\ ex.pc = "loop" /\ ex.i <= Len(file)
    /\ ex' = plot_dxf_entity(ex, file[ex.i])
    /\ UNCHANGED <<file, msp, saved, hist, http>>

PlotDxfFinish ==
    /\ ex.impl = "plot_dxf" /\ ex.pc = "loop" /\ ex.i > Len(file)
    /\ ex' = plot_dxf_finish(ex)
    /\ UNCHANGED <<file, msp, saved, hist, http>>

\* one round of "for e in self.msp" in convert_to_image
AddEntity ==
    /\ ex.impl = "convert_to_image" /\ ex.pc = "loop" /\ ex.i <= Len(file)
    /\ ex' = [add_entity([ex EXCEPT !.calls = <<>>], file[ex.i], Origin)
                 EXCEPT !.i = ex.i + 1]
    /\ UNCHANGED <<file, msp, saved, hist, http>>

ConvertToImageFinish ==
    /\ ex.impl = "convert_to_image" /\ ex.pc = "loop" /\ ex.i > Len(file)
    /\ ex' = convert_to_image_finish(ex)
    /\ UNCHANGED <<file, msp, saved, hist, http>>

NextExtract ==
    \/ PlotDxfEntity
    \/ PlotDxfFinish
    \/ AddEntity
    \/ ConvertToImageFinish

SpecExtract == InitExtract /\ [][NextExtract]_vars

-----------------------------------------------------------------------------
(* The chat actions of actions/actions.py and the servers they call *)

\* what requests.request(...) raises when no response arrives
RequestFailures ==
    {"ConnectionError", "ConnectTimeout", "ReadTimeout", "TooManyRedirects"}
\* status codes of the responses that do arrive
StatusCodes == {200, 204, 404, 500}

\* the classes named in the except clauses that an exception is an instance
\* of (requests.exceptions: ConnectTimeout is a ConnectionError and a
\* Timeout, ReadTimeout is a Timeout)
Bases(exc) ==
    IF exc = "ConnectionError" THEN {"ConnectionError", "Exception"}
    ELSE IF exc = "ConnectTimeout"
    THEN {"ConnectionError", "Timeout", "Exception"}
    ELSE IF exc = "ReadTimeout" THEN {"Timeout", "Exception"}
    ELSE IF exc = "HTTPError" THEN {"HTTPError", "Exception"}
    ELSE {"Exception"}

\* the except clauses of each try block, in the order they are written
ExceptClauses == <<"ConnectionError", "Timeout", "HTTPError", "Exception">>

\* variant: the catch-all clause takes every exception
Caught_by_catch_all(exc) == "Exception"

\* the clause that handles exc: the first one it is an instance of
Caught(exc) ==
    ExceptClauses[CHOOSE k \in 1..Len(ExceptClauses) :
        /\ ExceptClauses[k] \in Bases(exc)
        /\ \A j \in 1..(k - 1) : ExceptClauses[j] \notin Bases(exc)]

\* a response body: the bytes of an image, or JSON text
ResponseBody(content, json, keys, movable_layers, immovable_layers) ==
    [content |-> content, json |-> json, keys |-> keys,
     movable_layers |-> movable_layers, immovable_layers |-> immovable_layers]
NoBody == ResponseBody("", "invalid", {}, <<>>, <<>>)

\* the outcome of requests.request: an exception, or a response
Failure(exc) == [exc |-> exc, status_code |-> 0, body |-> NoBody]
Response(status_code, body) ==
    [exc |-> "none", status_code |-> status_code, body |-> body]

\* response.raise_for_status()
raise_for_status(reply) ==
    IF reply.status_code >= 400 /\ reply.status_code < 600
    THEN "HTTPError" ELSE "none"

\* the exception that leaves "requests.request(...); raise_for_status()"
request_raises(reply) ==
    IF reply.exc # "none" THEN reply.exc ELSE raise_for_status(reply)

\* dispatcher.utter_message(text=...); detail is the interpolated status code
Message(text, detail) == [text |-> text, detail |-> detail]

\* the texts of the four except clauses of each try block
FetchTexts ==
    [ConnectionError |-> "I couldn't connect to the design server. Please check if it's running.",
     Timeout |-> "The request to the design server timed out. Please try again later.",
     HTTPError |-> "There was a problem retrieving the image: ",
     Exception |-> "An unexpected error occurred while retrieving the floorplan image."]
UploadTexts ==
    [ConnectionError |-> "I couldn't connect to the storage server. Please try again later.",
     Timeout |-> "The upload to the storage server timed out. Please try again later.",
     HTTPError |-> "There was a problem uploading the image: ",
     Exception |-> "An unexpected error occurred while uploading the floorplan image."]
ToggleTexts ==
    [ConnectionError |-> "I couldn't connect to the design server when trying to toggle the layer.",
     Timeout |-> "The request to toggle the layer timed out. Please try again later.",
     HTTPError |-> "There was a problem toggling the layer: ",
     Exception |-> "Failed to toggle layer"]
MovableListTexts ==
    [ConnectionError |-> "I couldn't connect to the design server. Please check if it's running.",
     Timeout |-> "The request to the design server timed out. Please try again later.",
     HTTPError |-> "There was a problem retrieving the list of movable objects: ",
     Exception |-> "Failed to retrieve the list of movable objects."]
MoveTexts ==
    [ConnectionError |-> "I couldn't connect to the design server when trying to move the object.",
     Timeout |-> "The request to move the object timed out. Please try again later.",
     HTTPError |-> "There was a problem moving the object: ",
     Exception |-> "Failed to move"]
ListTexts ==
    [ConnectionError |-> "I couldn't connect to the design server. Please check if it's running.",
     Timeout |-> "The request to the design server timed out. Please try again later.",
     HTTPError |-> "There was a problem retrieving the object list: ",
     Exception |-> "Failed to retrieve the list of objects."]
UnexpectedMsg == "I received an unexpected response from the design server."
ShowMsg == "Here's the floorplan image:"
DisplayTroubleMsg == "I had trouble displaying the image, but it has been uploaded successfully."
HttpMovedMsg == "I've moved the object by distance units."
CannotMoveMsg == "Sorry, the object cannot be moved in this version. It might be a fixed element."
NoMovableMsg == "There are no objects that can be moved."
NoImmovableMsg == "There are no immovable objects."
MovableMsg == "Objects that can be moved: "
ImmovableMsg == "Objects that cannot be moved: "

\* the message of the except clause that handles the exception of a request
ErrorMessage(texts, reply) ==
    LET clause == Caught(request_raises(reply))
    IN  Message(texts[clause],
                IF clause = "HTTPError" THEN ToString(reply.status_code)
                ELSE "")

RenderUrl == "http://localhost:8080/api/render/image/"
UploadUrl == "https://archcad.s3.ap-south-1.amazonaws.com/floorplan.png"
ToggleUrl == "http://localhost:8080/api/render/toggle_layer"
ListUrl == "http://localhost:8080/api/transform/list/"
MoveUrl == "http://localhost:8080/api/transform/move/"

\* one requests.request call: params is <<layer, end_state or distance>>, or
\* <<>> when the call passes none
Request(method, url, params, reply) ==
    [method |-> method, url |-> url, params |-> params, reply |-> reply]
FollowupAction(name) == [event |-> "followup", name |-> name]

\* one run of an action: the layer get_layer_name resolved, the requests it
\* made, the messages it sent, the events it returned, the exception that
\* left it
Run(action, layer, requests, messages, events, raised) ==
    [action |-> action, layer |-> layer, requests |-> requests,
     messages |-> messages, events |-> events, raised |-> raised]
NoRun == Run("", "", <<>>, <<>>, <<>>, "none")

\* get_layer_name(text): the best-matching layer name; the index files and
\* the embeddings service it reads can fail, and nothing around it catches
Unresolved == "<get_layer_name raises>"
LayerNames == {TargetLayer, OtherLayer}
Resolved == LayerNames \cup {Unresolved}

\* list_response.json() is a dict that has the key
HasKey(body, key) == body.json = "dict" /\ key \in body.keys
Elements(seq) == {seq[k] : k \in 1..Len(seq)}

\* variant: every layer counts as movable
IsMovable_always(layer, movable_layers) == TRUE

\* layer in movable_layers
IsMovable(layer, movable_layers) == layer \in Elements(movable_layers)

\* variant: an empty image counts as content
HasContent_always(body) == TRUE

\* if image_content: bytes are true unless empty
HasContent(body) == body.content # ""

\* whether the utter_message of step 3 returns or raises
Displays == {"shown", "raises"}

\* ActionShowImage.run: fetch the image, upload it, show it
ShowImage_run(fetch, upload, display) ==
    LET get == Request("GET", RenderUrl, <<>>, fetch)
        put == Request("PUT", UploadUrl, <<>>, upload)
    IN  IF request_raises(fetch) # "none"
        THEN Run("action_show_image", "", <<get>>,
                 <<ErrorMessage(FetchTexts, fetch)>>, <<>>, "none")
        ELSE IF ~HasContent(fetch.body)
        THEN Run("action_show_image", "", <<get>>, <<>>, <<>>, "none")
        ELSE IF request_raises(upload) # "none"
        THEN Run("action_show_image", "", <<get, put>>,
                 <<ErrorMessage(UploadTexts, upload)>>, <<>>, "none")
        ELSE IF display = "raises"
        THEN Run("action_show_image", "", <<get, put>>,
                 <<Message(DisplayTroubleMsg, "")>>, <<>>, "none")
        ELSE Run("action_show_image", "", <<get, put>>,
                 <<Message(ShowMsg, UploadUrl)>>, <<>>, "none")

\* ActionToggleLayer.run
ToggleLayer_run(layer, end_state, toggle) ==
    LET get == Request("GET", ToggleUrl, <<layer, end_state>>, toggle)
    IN  IF layer = Unresolved
        THEN Run("action_toggle_layer", layer, <<>>, <<>>, <<>>, "Exception")
        ELSE IF request_raises(toggle) # "none"
        THEN Run("action_toggle_layer", layer, <<get>>,
                 <<ErrorMessage(ToggleTexts, toggle)>>, <<>>, "none")
        ELSE Run("action_toggle_layer", layer, <<get>>, <<>>,
                 <<FollowupAction("action_show_image")>>, "none")

\* ActionMoveObject.run of actions.py
MoveObject_run(layer, distance, list, move) ==
    LET get_list == Request("GET", ListUrl, <<>>, list)
        get_move == Request("GET", MoveUrl, <<layer, distance>>, move)
    IN  IF layer = Unresolved
        THEN Run("action_move_object", layer, <<>>, <<>>, <<>>, "Exception")
        ELSE IF request_raises(list) # "none"
        THEN Run("action_move_object", layer, <<get_list>>,
                 <<ErrorMessage(MovableListTexts, list)>>, <<>>, "none")
        ELSE IF list.body.json = "invalid"
        THEN Run("action_move_object", layer, <<get_list>>,
                 <<Message(MovableListTexts.Exception, "")>>, <<>>, "none")
        ELSE IF ~HasKey(list.body, "movable_layers")
        THEN Run("action_move_object", layer, <<get_list>>,
                 <<Message(UnexpectedMsg, "")>>, <<>>, "none")
        ELSE IF ~IsMovable(layer, list.body.movable_layers)
        THEN Run("action_move_object", layer, <<get_list>>,
                 <<Message(CannotMoveMsg, "")>>, <<>>, "none")
        ELSE IF request_raises(move) # "none"
        THEN Run("action_move_object", layer, <<get_list, get_move>>,
                 <<ErrorMessage(MoveTexts, move)>>, <<>>, "none")
        ELSE Run("action_move_object", layer, <<get_list, get_move>>,
                 <<Message(HttpMovedMsg, "")>>,
                 <<FollowupAction("action_show_image")>>, "none")

\* ActionListObjects.run
ListObjects_run(list) ==
    LET get_list == Request("GET", ListUrl, <<>>, list)
    IN  IF request_raises(list) # "none"
        THEN Run("action_list_objects", "", <<get_list>>,
                 <<ErrorMessage(ListTexts, list)>>, <<>>, "none")
        ELSE IF list.body.json = "invalid"
        THEN Run("action_list_objects", "", <<get_list>>,
                 <<Message(ListTexts.Exception, "")>>, <<>>, "none")
        ELSE IF ~HasKey(list.body, "movable_layers")
                \/ ~HasKey(list.body, "immovable_layers")
        THEN Run("action_list_objects", "", <<get_list>>,
                 <<Message(UnexpectedMsg, "")>>, <<>>, "none")
        ELSE Run("action_list_objects", "", <<get_list>>,
                 << IF list.body.movable_layers # <<>>
                    THEN Message(MovableMsg, "") ELSE Message(NoMovableMsg, ""),
                    IF list.body.immovable_layers # <<>>
                    THEN Message(ImmovableMsg, "")
                    ELSE Message(NoImmovableMsg, "") >>,
                 <<>>, "none")

\* the replies of the servers
ImageBodies == {NoBody, ResponseBody("<png>", "invalid", {}, <<>>, <<>>)}
ListBodies ==
    {NoBody, ResponseBody("[]", "list", {}, <<>>, <<>>),
     ResponseBody("{}", "dict", {}, <<>>, <<>>),
     ResponseBody("{}", "dict", {"movable_layers"}, <<TargetLayer>>, <<>>)}
    \cup {ResponseBody("{}", "dict", {"movable_layers", "immovable_layers"}, m, i) :
             m \in {<<>>, <<TargetLayer>>, <<TargetLayer, OtherLayer>>},
             i \in {<<>>, <<PointLayer>>}}
Replies(bodies) ==
    {Failure(exc) : exc \in RequestFailures}
    \cup {Response(status_code, NoBody) : status_code \in StatusCodes}
    \cup {Response(200, body) : body \in bodies}

\* the end_state and distance slots, as the tracker holds them
EndStates == {"on", "off"}
DistanceTexts == {"2", "-0.5"}

InitHttp ==
    /\ file = <<>>
    /\ msp = <<>>
    /\ saved = NotSaved
    /\ hist = <<>>
    /\ ex = Idle
    /\ http = NoRun

HttpShowImage ==
    /\ \E fetch \in Replies(ImageBodies), upload \in Replies({NoBody}),
          display \in Displays :
          http' = ShowImage_run(fetch, upload, display)
    /\ UNCHANGED <<file, msp, saved, hist, ex>>

HttpToggleLayer ==
    /\ \E layer \in Resolved, end_state \in EndStates,
          toggle \in Replies({NoBody}) :
          http' = ToggleLayer_run(layer, end_state, toggle)
    /\ UNCHANGED <<file, msp, saved, hist, ex>>

HttpMoveObject ==
    /\ \E layer \in Resolved, distance \in DistanceTexts,
          list \in Replies(ListBodies), move \in Replies({NoBody}) :
          http' = MoveObject_run(layer, distance, list, move)
    /\ UNCHANGED <<file, msp, saved, hist, ex>>

HttpListObjects ==
    /\ \E list \in Replies(ListBodies) : http' = ListObjects_run(list)
    /\ UNCHANGED <<file, msp, saved, hist, ex>>

NextHttp ==
    \/ HttpShowImage
    \/ HttpToggleLayer
    \/ HttpMoveObject
    \/ HttpListObjects

SpecHttp == InitHttp /\ [][NextHttp]_vars

-----------------------------------------------------------------------------
(* Properties of the transform engine *)

IsMove(c) ==
    c.op \in {"move_objects", "action_move_object"} /\ c.said # MissingMsg
Moves == {k \in 1..Len(hist) : IsMove(hist[k])}
Completed(c) == IsMove(c) /\ c.raised = "none" /\ Len(c.points) = 2

\* the entities whose coordinates a call changed
Changed(c) == {i \in 1..Len(c.pre) : c.post[i].pts # c.pre[i].pts}
TargetEntities(m) ==
    {i \in 1..Len(m) : m[i].layer = TargetLayer}
OnLayer(m, layer) == {i \in 1..Len(m) : m[i].layer = layer}

\* the displacements a call gave to the points of entity i
Displacements(c, i) ==
    {<<RSub(c.post[i].pts[k][1], c.pre[i].pts[k][1]),
       RSub(c.post[i].pts[k][2], c.pre[i].pts[k][2]),
       RSub(c.post[i].pts[k][3], c.pre[i].pts[k][3])>> :
        k \in 1..Len(c.pre[i].pts)}

Dot(u, v) == RAdd(RAdd(RMul(u[1], v[1]), RMul(u[2], v[2])), RMul(u[3], v[3]))
Cross(u, v) ==
    <<RSub(RMul(u[2], v[3]), RMul(u[3], v[2])),
      RSub(RMul(u[3], v[1]), RMul(u[1], v[3])),
      RSub(RMul(u[1], v[2]), RMul(u[2], v[1]))>>
Diff(p, q) == <<RSub(q[1], p[1]), RSub(q[2], p[2]), RSub(q[3], p[3])>>

\* C1: move_objects on a drawing whose reference layer holds a number of
\* POINT entities other than two raises ValueError and leaves every entity
\* of the drawing as it was.
C1_WrongPointCountRaisesUnchanged ==
    \A k \in Moves :
        Len(hist[k].points) # 2 =>
            /\ hist[k].raised = "ValueError"
            /\ hist[k].post = hist[k].pre

C1_Witness ==
    \E k \in Moves :
        /\ Len(hist[k].points) = 3
        /\ hist[k].distance # Zero
        /\ TargetEntities(hist[k].pre) # {}
        /\ hist[k].raised = "ValueError"

\* C2: a completed move with distinct reference points and a non-zero
\* distance changes exactly the entities on the layer named by its target
\* argument.
C2_ChangesExactlyNamedLayer ==
    \A k \in Moves :
        (/\ Completed(hist[k])
         /\ hist[k].points[1] # hist[k].points[2]
         /\ hist[k].distance # Zero)
        => Changed(hist[k]) = OnLayer(hist[k].pre, hist[k].object)

\* C3: with reference points (0,0,0), (10,0,0) and distance 0.5 the
\* translation is (5,0,0): the Line (0,0,0)-(1,0,0) on the target layer
\* ends at (5,0,0)-(6,0,0).
C3_TranslationIsFive ==
    \A k \in Moves :
        (/\ Completed(hist[k])
         /\ hist[k].points = <<P3(0, 0, 0), P3(10, 0, 0)>>
         /\ hist[k].distance = Rat(1, 2))
        => \A i \in 1..Len(hist[k].pre) :
              hist[k].pre[i] = Line(TargetLayer, P3(0, 0, 0), P3(1, 0, 0))
              => hist[k].post[i].pts = <<P3(5, 0, 0), P3(6, 0, 0)>>

\* C3 as amended: with reference points (0,0,0), (10,0,0) and distance 0.5
\* the translation is (0.5,0,0): the Line (0,0,0)-(1,0,0) on the target
\* layer ends at (0.5,0,0)-(1.5,0,0).
C3_TranslationIsHalf ==
    \A k \in Moves :
        (/\ Completed(hist[k])
         /\ hist[k].points = <<P3(0, 0, 0), P3(10, 0, 0)>>
         /\ hist[k].distance = Rat(1, 2))
        => \A i \in 1..Len(hist[k].pre) :
              hist[k].pre[i] = Line(TargetLayer, P3(0, 0, 0), P3(1, 0, 0))
              => /\ Displacements(hist[k], i) = {<<Rat(1, 2), Zero, Zero>>}
                 /\ hist[k].post[i].pts
                      = <<<<Rat(1, 2), Zero, Zero>>, <<Rat(3, 2), Zero, Zero>>>>

C3_Witness ==
    \E k \in Moves :
        /\ Completed(hist[k])
        /\ hist[k].points = <<P3(0, 0, 0), P3(10, 0, 0)>>
        /\ hist[k].distance = Rat(1, 2)
        /\ \E i \in 1..Len(hist[k].pre) :
              hist[k].pre[i] = Line(TargetLayer, P3(0, 0, 0), P3(1, 0, 0))

\* C4: with distinct reference points p1, p2 every translation applied by a
\* completed move has length |distance| and is parallel to p2 - p1, pointing
\* the same way for a positive distance and the opposite way for a negative
\* one, however far apart p1 and p2 are.
C4_TranslationIsUnitTimesDistance ==
    \A k \in Moves :
        (Completed(hist[k]) /\ hist[k].points[1] # hist[k].points[2]) =>
            \A i \in TargetEntities(hist[k].pre) :
                \A t \in Displacements(hist[k], i) :
                    LET d == hist[k].distance
                        v == Diff(hist[k].points[1], hist[k].points[2])
                    IN  /\ Dot(t, t) = RMul(d, d)
                        /\ Cross(t, v) = ZeroVector
                        /\ RLess(Zero, d) => RLess(Zero, Dot(t, v))
                        /\ RLess(d, Zero) => RLess(Dot(t, v), Zero)

C4_Witness ==
    \E k \in Moves :
        /\ Completed(hist[k])
        /\ hist[k].points = <<P3(10, 0, 0), P3(12, 1, 2)>>
        /\ hist[k].distance = Rat(-1, 2)
        /\ \E i \in 1..Len(hist[k].pre) :
              Displacements(hist[k], i)
                  = {<<Rat(-1, 3), Rat(-1, 6), Rat(-1, 3)>>}

\* C5: get_vector_from_two_points(p, p) is the zero vector, and for
\* p1 # p2 the vector returned is not the zero vector.
C5_ZeroVectorIffSamePoint ==
    \A k \in Moves :
        Len(hist[k].points) = 2 =>
            (hist[k].unit = ZeroVector
                <=> hist[k].points[1] = hist[k].points[2])

C5_Witness ==
    \E k \in Moves :
        /\ Completed(hist[k])
        /\ hist[k].points[1] = hist[k].points[2]
        /\ hist[k].distance # Zero
        /\ hist[k].unit = ZeroVector
        /\ hist[k].post = hist[k].pre

\* the segments extract_lines yields for the entities of a model space
RECURSIVE SegmentsFrom(_, _)
SegmentsFrom(m, i) ==
    IF i > Len(m) THEN <<>>
    ELSE extract_lines(m[i], Origin, <<>>).lines \o SegmentsFrom(m, i + 1)

\* C6: on one loaded drawing, a completed move by distance d followed by a
\* completed move by -d leaves every extracted segment endpoint where it
\* was before the first move.
C6_InverseMoveRestoresSegments ==
    \A k \in 1..(Len(hist) - 1) :
        (/\ hist[k].op = "move_objects" /\ Completed(hist[k])
         /\ hist[k + 1].op = "move_objects" /\ Completed(hist[k + 1])
         /\ hist[k + 1].distance = RNeg(hist[k].distance))
        => /\ hist[k + 1].unit = hist[k].unit
           /\ SegmentsFrom(hist[k + 1].post, 1) = SegmentsFrom(hist[k].pre, 1)

C6_Witness ==
    \E k \in 1..(Len(hist) - 1) :
        /\ hist[k].op = "move_objects" /\ Completed(hist[k])
        /\ hist[k + 1].op = "move_objects" /\ Completed(hist[k + 1])
        /\ hist[k].distance # Zero
        /\ hist[k + 1].distance = RNeg(hist[k].distance)
        /\ hist[k].points[1] # hist[k].points[2]
        /\ SegmentsFrom(hist[k].post, 1) # SegmentsFrom(hist[k].pre, 1)
        /\ hist[k + 1].pre = hist[k].post

-----------------------------------------------------------------------------
(* Properties of the chat actions *)

\* C7: a drawing is loaded once and mutated in place: the operation that
\* follows a completed move action (a second move action, an image
\* conversion) works on the entities as that move left them.
C7_LaterOperationSeesMovedEntities ==
    \A k \in 1..(Len(hist) - 1) :
        (/\ hist[k].op = "action_move_object" /\ Completed(hist[k])
         /\ Changed(hist[k]) # {}
         /\ hist[k + 1].op \in {"action_move_object", "action_show_image"}
         /\ hist[k + 1].said # MissingMsg)
        => hist[k + 1].pre = hist[k].post

-----------------------------------------------------------------------------
(* Properties of the extraction *)

Calls == {ex.calls[k] : k \in 1..Len(ex.calls)}
Shifted(p, insert_point) ==
    Pt(RAdd(p[1], insert_point[1]), RAdd(p[2], insert_point[2]))
IsPolyline(e) == e.kind \in {"POLYLINE", "LWPOLYLINE"}

C9_CircleSegments ==
    \A c \in Calls :
        c.entity.kind = "CIRCLE" =>
            /\ Len(c.lines) = Samples - 1
            /\ \A k \in 1..(Len(c.lines) - 1) : c.lines[k][2] = c.lines[k + 1][1]
            /\ c.lines[1][1] = c.lines[Len(c.lines)][2]

C9_Witness ==
    /\ ex.pc \in {"loop", "done"}
    /\ \E c \in Calls :
          /\ c.entity.kind = "CIRCLE"
          /\ Len(c.lines) = 99
          /\ c.lines[1][1] # c.lines[1][2]

\* C10: no single entity makes the extraction fail: the loop over model
\* space never ends in an exception, whatever the entity it is at.
C10_NoEntityFailsExtraction ==
    ~(ex.pc = "raised" /\ ex.i <= Len(file))

Segments == ex.all_lines \o ex.dimension_lines
IsDimension(e) == e.kind \in {"DIMENSION", "ROTATED_DIMENSION"}
ExplodeFailed(e) == IsDimension(e) /\ e.fault \in ExplodeFaults
\* the loop is over and the code after it has run
Finished == ex.i > Len(file) /\ ex.pc # "loop"

\* C11: when an Insert of model space has been processed, each child of the
\* block it names was extracted, in block order, with the Insert's insertion
\* point as offset, and a child that is itself an Insert gave no segments.
C11_InsertChildrenExtractedAtInsertPoint ==
    (/\ ex.pc = "loop" /\ ex.i > 1
     /\ file[ex.i - 1].kind = "INSERT"
     /\ file[ex.i - 1].name \in BlockNames)
    => LET insert == file[ex.i - 1]
           block == BlockTable[insert.name]
       IN  /\ Len(ex.calls) = Len(block)
           /\ \A k \in 1..Len(block) :
                 /\ k <= Len(ex.calls)
                 /\ ex.calls[k].entity = block[k]
                 /\ ex.calls[k].insert_point[1] = insert.pts[1][1]
                 /\ ex.calls[k].insert_point[2] = insert.pts[1][2]
                 /\ block[k].kind = "INSERT" => ex.calls[k].lines = <<>>

\* C12: the annotations of the Dimensions of one plot_dxf run (the only
\* annotations plot_dxf emits) have pairwise different anchor positions.
C12_OneAnnotationPerAnchor ==
    ex.impl = "plot_dxf" =>
        \A j, k \in 1..Len(ex.all_annotations) :
            j # k => ex.all_annotations[j].position
                        # ex.all_annotations[k].position

\* the segment of the one sub-entity (a Line) converted before the explode
\* of e fails
PartialSegments(e) ==
    << <<Shifted(e.sub[1].pts[1], Origin), Shifted(e.sub[1].pts[2], Origin)>> >>

\* C13 as stated: as long as every entity processed so far is a Dimension
\* whose explode failed part-way, the result holds no segment and no
\* annotation.
C13_FailedExplodeSkippedAsWhole ==
    (ex.i > 1 /\ \A k \in 1..(ex.i - 1) : ExplodeFailed(file[k]))
    => Segments = <<>> /\ ex.all_annotations = <<>>

\* C13: a Dimension whose explode fails part-way is not skipped as a whole.
\* When the error is caught (AttributeError in process_dimension, any
\* exception in add_entity) the segments converted before the error are
\* appended to the result and no annotation is added; any other error leaves
\* plot_dxf with the lists as they were.
C13_PartialExplodeKeepsConvertedSegments ==
    [][(ex.pc = "loop" /\ ex.i <= Len(file) /\ ExplodeFailed(file[ex.i]))
       => LET e == file[ex.i]
          IN  IF ex.impl = "plot_dxf" /\ e.fault = "explode_Error"
              THEN /\ ex'.pc = "raised"
                   /\ ex'.all_lines = ex.all_lines
                   /\ ex'.dimension_lines = ex.dimension_lines
                   /\ ex'.all_annotations = ex.all_annotations
              ELSE /\ ex'.pc = "loop"
                   /\ ex'.all_lines \o ex'.dimension_lines
                        = IF ex.impl = "plot_dxf"
                          THEN ex.all_lines \o ex.dimension_lines
                                  \o PartialSegments(e)
                          ELSE ex.all_lines \o PartialSegments(e)
                   /\ ex'.all_annotations = ex.all_annotations]_vars

C13_Witness ==
    /\ ex.impl = "plot_dxf" /\ ex.pc = "loop" /\ ex.i = 2
    /\ ExplodeFailed(file[1]) /\ file[1].fault = "explode_AttributeError"
    /\ ex.dimension_lines = PartialSegments(file[1])
    /\ ex.all_annotations = <<>>

\* C14: as long as every entity processed so far is an MText, there is one
\* annotation per MText, at its insertion point and with its text, and no
\* segment.
C14_MTextYieldsOneAnnotation ==
    (ex.pc = "loop" /\ \A k \in 1..(ex.i - 1) : file[k].kind = "MTEXT")
    => /\ Len(ex.all_annotations) = ex.i - 1
       /\ \A k \in 1..(ex.i - 1) :
             /\ k <= Len(ex.all_annotations)
             /\ ex.all_annotations[k]
                  = [position |-> Pt(file[k].pts[1][1], file[k].pts[1][2]),
                     text |-> file[k].text]
       /\ Segments = <<>>

\* C15: a finished run with a non-empty segment set has the view limits of
\* the bounding box widened on both axes by the one margin
\* max(width, height) * 0.05.
C15_SingleMarginOnBothAxes ==
    (/\ ex.pc = "done" /\ Segments # <<>>
     /\ Exact(EndPoints(Segments)))
    => LET b == BoundingBox(EndPoints(Segments))
           width == RSub(b[2], b[1])
           height == RSub(b[4], b[3])
           m == RMul(IF RLess(width, height) THEN height ELSE width,
                     Rat(5, 100))
       IN  ex.limits = <<RSub(b[1], m), RAdd(b[2], m),
                         RSub(b[3], m), RAdd(b[4], m)>>

\* C16: a run that emitted no segment finishes without an exception and
\* without view limits, and when it has annotations it still writes its
\* image.
C16_EmptySegmentsStillRender ==
    (Finished /\ Segments = <<>>)
    => /\ ex.pc = "done"
       /\ ex.limits = <<>>
       /\ ex.all_annotations # <<>> => ex.wrote

\* C17: a run that reaches the end of model space does not raise, and it
\* writes its image unless it extracted no segment and no annotation.
C17_ImageWrittenUnlessNothingExtracted ==
    Finished
    => /\ ex.pc = "done"
       /\ ex.wrote <=> ~(Segments = <<>> /\ ex.all_annotations = <<>>)

-----------------------------------------------------------------------------
(* Properties of ActionMoveObjects.run *)

\* C19: a run of ActionMoveObjects saves the drawing exactly when both
\* slots were supplied (a distance of 0 counts as missing) and move_objects
\* returned without error, and then it saves the moved entities; in every
\* other run the entities and the saved file stay as they were, and no other
\* action saves.
C19_SavedOnlyAfterCompleteMove ==
    [][Len(hist') = Len(hist) + 1 =>
         LET c == hist'[Len(hist')]
         IN  IF c.op = "action_move_object"
             THEN IF /\ c.object # NoObject
                     /\ c.distance # None /\ c.distance # Zero
                     /\ c.raised = "none"
                  THEN saved' = [written |-> TRUE, msp |-> c.post]
                  ELSE saved' = saved /\ c.post = c.pre
             ELSE saved' = saved]_vars

C19_Witness ==
    /\ Len(hist) = 2
    /\ hist[1].op = "action_move_object" /\ hist[1].said = MovedMsg
    /\ hist[1].post # hist[1].pre
    /\ hist[2].op = "action_move_object" /\ hist[2].said = MissingMsg
    /\ hist[2].object # NoObject /\ hist[2].distance = Zero
    /\ saved = [written |-> TRUE, msp |-> hist[1].post]

-----------------------------------------------------------------------------
(* Properties of the actions that call the design server *)

Is2xx(reply) ==
    reply.exc = "none" /\ reply.status_code >= 200 /\ reply.status_code < 300

\* the three error kinds of a request: no connection (a connect timeout
\* included), no answer in time, an answer with an error status
FailureKind(reply) ==
    IF reply.exc \in {"ConnectionError", "ConnectTimeout"} THEN "connection"
    ELSE IF reply.exc = "ReadTimeout" THEN "timeout"
    ELSE IF reply.exc = "none" /\ ~Is2xx(reply) THEN "status"
    ELSE "none"
LastRequest(run) == run.requests[Len(run.requests)]
FailedRequest(run) ==
    run.requests # <<>> /\ FailureKind(LastRequest(run).reply) # "none"

C21_ShowImageStepsInOrder ==
    http.action = "action_show_image" =>
        /\ http.requests # <<>> /\ http.requests[1].url = RenderUrl
        /\ \A k \in 1..Len(http.requests) :
              http.requests[k].url = UploadUrl =>
                 /\ k = 2
                 /\ Is2xx(http.requests[1].reply)
                 /\ http.requests[1].reply.body.content # ""
        /\ \A k \in 1..Len(http.messages) :
              http.messages[k].text = ShowMsg =>
                 /\ Len(http.requests) = 2
                 /\ http.requests[2].url = UploadUrl
                 /\ Is2xx(http.requests[2].reply)
        /\ Len(http.messages) <= 1
        /\ (Is2xx(http.requests[1].reply)
            /\ http.requests[1].reply.body.content = "")
              => Len(http.requests) = 1 /\ http.messages = <<>>
        /\ http.events = <<>> /\ http.raised = "none"

C21_Witness ==
    /\ http.action = "action_show_image"
    /\ Len(http.requests) = 2
    /\ http.requests[1].reply.body.content # ""
    /\ Is2xx(http.requests[2].reply)
    /\ http.messages = <<Message(ShowMsg, UploadUrl)>>

-----------------------------------------------------------------------------
(* Properties of the colours of plot_dxf *)

\* the number of segments the calls of the latest step returned
StepSegments == Len(Flatten([k \in 1..Len(ex.calls) |-> ex.calls[k].lines]))

\* C22: at every point of plot_dxf's loop all_colors is as long as
\* all_lines and dimension_colors as long as dimension_lines; every
\* dimension colour is (0, 0, 0.8); and the segments of the block of an
\* Insert just processed carry the colour of the Insert's own layer, black
\* when the layer has no colour.
C22_ColoursParallelToSegments ==
    ex.impl = "plot_dxf" =>
        /\ Len(ex.all_colors) = Len(ex.all_lines)
        /\ Len(ex.dimension_colors) = Len(ex.dimension_lines)
        /\ \A k \in 1..Len(ex.dimension_colors) :
              ex.dimension_colors[k] = <<Zero, Zero, Rat(8, 10)>>
        /\ (ex.pc = "loop" /\ ex.i > 1 /\ file[ex.i - 1].kind = "INSERT")
              => LET layer == file[ex.i - 1].layer
                     own == IF layer \in DOMAIN ex.layer_colors
                            THEN ex.layer_colors[layer]
                            ELSE <<Zero, Zero, Zero>>
                     n == Len(ex.all_colors)
                 IN  /\ StepSegments <= n
                     /\ \A k \in (n - StepSegments + 1)..n :
                           ex.all_colors[k] = own

C22_Witness ==
    /\ ex.impl = "plot_dxf" /\ ex.pc = "loop" /\ ex.i = 3
    /\ file[1].kind = "DIMENSION" /\ ex.dimension_lines # <<>>
    /\ file[2].kind = "INSERT" /\ StepSegments > 0
    /\ file[2].layer \in DOMAIN ex.layer_colors
    /\ \E k \in 1..Len(ex.calls) :
          /\ ex.calls[k].lines # <<>>
          /\ ex.calls[k].entity.layer # file[2].layer

====
